---- MODULE Spec2Model ----
(***************************************************************************)
(* A model of dr::Ensenso (src/dr_ensenso/src/ensenso.cpp): a session on  *)
(* a stereo camera with an optional linked monocular camera.  Every       *)
(* public operation is one action that runs the whole handler against a   *)
(* model of the device tree; the device's answers (a command failing, a   *)
(* camera not delivering an image, the poses it computes) are inputs      *)
(* drawn from small sets.  Each call leaves in `last` what it was called  *)
(* with, the device state it started from, what it returned and the       *)
(* ordered log of the commands it executed and the properties it wrote.   *)
(*                                                                         *)
(* Lengths are fixed-point numbers with three decimals: the integer n     *)
(* stands for n/1000 of the unit, so 1 m is 1000 and 1 mm (= 0.001 m) is  *)
(* 1 when read as metres.  Rotations are restricted to the two-element    *)
(* group {1, -1} acting on a one-dimensional translation, which keeps     *)
(* composition non-commutative.                                           *)
(***************************************************************************)
EXTENDS Integers, Sequences, FiniteSets, TLC

\* ---------------------------------------------------------------- bounds
MaxSessions == 2      \* sessions constructed in one run
MaxFlexView == 2      \* largest flex-view level of the device
MaxPatterns == 2      \* patterns the device holds before a call
MaxSamples  == 2      \* samples asked of detectCalibrationPattern
MaxCoord    == 1      \* largest ROI coordinate and extent
MaxPoses    == 3      \* robot poses handed to computeCalibration

\* ------------------------------------------------------ program constants
CaptureTimeout == 1500   \* the timeout of the calibration capture
MmPerMeter     == 1000   \* translation() *= 1000

\* --------------------------------------------------------------- devices
StereoSerials == {"S1", "S2"}
MonoSerial    == "M1"           \* the monocular camera, linked to S1
NoCamera      == "absent"       \* an empty boost::optional<NxLibItem>
Serials       == StereoSerials \cup {MonoSerial}

VARIABLES
    session,           \* "none", "live", "failed", "destroyed", "terminated"
    sessions,          \* constructor calls so far
    attached,          \* the cameras connected to the computer
    nxlib,             \* counters: initialized, finalized, opened, closed
    ensenso_camera,    \* serial of the opened stereo camera ("" before)
    monocular_camera,  \* serial of the monocular camera, or NoCamera
    dev,               \* the stereo camera's node of the device tree
    eeprom,            \* the calibration stored in the camera
    last               \* the last call: op, args, pre, status, ret, log

vars == <<session, sessions, attached, nxlib, ensenso_camera,
          monocular_camera, dev, eeprom, last>>

\* ------------------------------------------------------------------ poses
Pose(r, t) == [r |-> r, t |-> t]
Identity == Pose(1, 0)
Compose(a, b) == Pose(a.r * b.r, a.t + a.r * b.t)
Inverse(a) == Pose(a.r, 0 - a.r * a.t)
\* translation() *= 1000
ScaleUp(p) == Pose(p.r, p.t * MmPerMeter)
\* translation() *= 0.001
ScaleDown(p) == Pose(p.r, p.t \div MmPerMeter)

\* ------------------------------------------------------------ device tree
FlexOff == [enabled |-> FALSE, level |-> 0]
FlexLevel(n) == [enabled |-> TRUE, level |-> n]
FlexValues == {FlexOff} \cup {FlexLevel(n) : n \in 0..MaxFlexView}

NoAoi == [exists |-> FALSE, ltx |-> 0, lty |-> 0, rbx |-> 0, rby |-> 0]

NoTarget == "<null>"            \* Link/Target is not a string node
FrameIds == {"", "world"}       \* frame ids a caller passes

DefaultDev ==
    [flexView |-> FlexOff, projector |-> TRUE, frontLight |-> FALSE,
     useAoi |-> FALSE, aoi |-> NoAoi, patterns |-> 0,
     linkTarget |-> "", link |-> Identity, useOpenGL |-> TRUE]

NoCall == [op |-> "none", args |-> <<>>, pre |-> DefaultDev,
           status |-> "ok", ret |-> "void", log |-> <<>>]

\* serialNumber()
SerialNumber == ensenso_camera

\* monocularSerialNumber()
monocularSerialNumber ==
    IF monocular_camera # NoCamera THEN monocular_camera ELSE ""

\* ------------------------------------------------- running a handler
\* The state a handler threads through its statements.
Start(d, e) == [dev |-> d, eeprom |-> e, log |-> <<>>, status |-> "ok",
                ret |-> "void", execs |-> 0]

Returns(r, v) == IF r.status = "ok" THEN [r EXCEPT !.ret = v] ELSE r

Range(f) == {f[i] : i \in DOMAIN f}

\* parameters()[itmCameras][i] = serial
SetAt(f, i, v) == [j \in (DOMAIN f) \cup {i} |-> IF j = i THEN v ELSE f[j]]

NoCameras == [j \in {} |-> ""]

Command(name, cameras, params) ==
    [name |-> name, cameras |-> cameras, params |-> params]

\* A property write on the device tree.
WriteProp(d, path, v) ==
    CASE path = "FlexView"   -> [d EXCEPT !.flexView = FlexLevel(v)]
      [] path = "Projector"  -> [d EXCEPT !.projector = v]
      [] path = "FrontLight" -> [d EXCEPT !.frontLight = v]
      [] path = "UseDisparityMapAreaOfInterest" -> [d EXCEPT !.useAoi = v]
      [] path = "AreaOfInterest/LeftTop/0" ->
            [d EXCEPT !.aoi.exists = TRUE, !.aoi.ltx = v]
      [] path = "AreaOfInterest/LeftTop/1" ->
            [d EXCEPT !.aoi.exists = TRUE, !.aoi.lty = v]
      [] path = "AreaOfInterest/RightBottom/0" ->
            [d EXCEPT !.aoi.exists = TRUE, !.aoi.rbx = v]
      [] path = "AreaOfInterest/RightBottom/1" ->
            [d EXCEPT !.aoi.exists = TRUE, !.aoi.rby = v]
      [] path = "Link/Target" -> [d EXCEPT !.linkTarget = v]
      [] path = "RenderPointMap/UseOpenGL" -> [d EXCEPT !.useOpenGL = v]

\* setNx(item, value) on a node of the device tree
setNx(r, path, v) ==
    IF r.status # "ok" THEN r
    ELSE [r EXCEPT !.dev = WriteProp(@, path, v),
                   !.log = Append(@, [ev |-> "set", name |-> path,
                                      cameras |-> NoCameras, val |-> v,
                                      ok |-> TRUE, res |-> <<>>,
                                      at |-> r.dev])]

\* item.erase()
eraseNx(r, path) ==
    IF r.status # "ok" THEN r
    ELSE [r EXCEPT !.dev = [@ EXCEPT !.aoi = NoAoi],
                   !.log = Append(@, [ev |-> "erase", name |-> path,
                                      cameras |-> NoCameras, val |-> <<>>,
                                      ok |-> TRUE, res |-> <<>>,
                                      at |-> r.dev])]

\* What a command that succeeded did to the camera's node.  env holds the
\* device's answers for this call.
DeviceEffect(cmd, d, env) ==
    CASE cmd.name = "DiscardPatterns" -> [d EXCEPT !.patterns = 0]
      [] cmd.name = "CollectPattern"  -> [d EXCEPT !.patterns = @ + 1]
      [] cmd.name = "CalibrateHandEye" ->
            [d EXCEPT !.link = env.link,
                      !.linkTarget = IF "Target" \in DOMAIN cmd.params
                                     THEN cmd.params.Target
                                     ELSE IF cmd.params.Setup = "Moving"
                                          THEN "Hand" ELSE "Workspace"]
      [] cmd.name = "CalibrateWorkspace" ->
            IF "PatternPose" \in DOMAIN cmd.params
            THEN [d EXCEPT !.link = env.link,
                           !.linkTarget = IF "Target" \in DOMAIN cmd.params
                                          THEN cmd.params.Target
                                          ELSE "Workspace"]
            ELSE [d EXCEPT !.link = Identity,
                           !.linkTarget = IF env.clearResetsTarget
                                          THEN cmd.params.Target ELSE @]
      [] OTHER -> d

\* What a command that succeeded did to the stored calibration.
DeviceStore(cmd, d, e) ==
    IF cmd.name = "StoreCalibration" /\ cmd.params.Link
    THEN [link |-> d.link, linkTarget |-> d.linkTarget]
    ELSE e

\* The result tree of a command: per camera, whether it was triggered or
\* delivered an image.  A camera the command does not name did neither.
DeviceResult(cmd, n, env) ==
    CASE cmd.name \in {"Capture", "Retrieve", "Trigger"} ->
            [s \in Serials |-> s \in Range(cmd.cameras) /\ <<n, s>> \notin env.lost]
      [] cmd.name = "EstimatePatternPose" -> env.patternPose
      [] cmd.name = "CalibrateHandEye" ->
            [PatternPose |-> env.patternPose, Iterations |-> env.iterations]
      [] OTHER -> <<>>

\* executeNx(command): the env.failAt-th command of the call fails, and the
\* failure is thrown as an NxError.
executeNx(r, cmd, env) ==
    IF r.status # "ok" THEN r
    ELSE LET n  == r.execs + 1
             ok == n # env.failAt
         IN [r EXCEPT !.execs = n,
                      !.status = IF ok THEN "ok" ELSE "error",
                      !.dev = IF ok THEN DeviceEffect(cmd, @, env) ELSE @,
                      !.eeprom = IF ok THEN DeviceStore(cmd, r.dev, @) ELSE @,
                      !.log = Append(@, [ev |-> "exec", name |-> cmd.name,
                                         cameras |-> cmd.cameras,
                                         val |-> cmd.params, ok |-> ok,
                                         res |-> IF ok THEN DeviceResult(cmd, n, env)
                                                 ELSE <<>>,
                                         at |-> r.dev])]

\* The result tree of the command the handler executed last.
LastResult(r) == r.log[Len(r.log)].res

\* ------------------------------------------------------------ capture
\* monocular = monocular && monocular_camera
narrowMonocular(monocular) == monocular /\ monocular_camera # NoCamera

\* Mutant of monocularIndex: the monocular camera always goes to index 1.
monocularIndex_AlwaysOne(stereo) == 1

\* The index of the monocular camera in a command's camera list.
monocularIndex(stereo) == IF stereo THEN 1 ELSE 0

\* The camera list trigger and retrieve build.
captureCameras(stereo, monocular) ==
    LET c0 == IF stereo THEN SetAt(NoCameras, 0, SerialNumber) ELSE NoCameras
    IN IF monocular
       THEN SetAt(c0, monocularIndex(stereo), monocular_camera)
       ELSE c0

\* Mutant of captureResult: the monocular camera's flag is not looked at.
captureResult_StereoOnly(stereo, monocular, res) ==
    IF stereo /\ ~res[SerialNumber] THEN FALSE ELSE TRUE

\* The two result checks at the end of trigger and retrieve.
captureResult(stereo, monocular, res) ==
    IF stereo /\ ~res[SerialNumber] THEN FALSE
    ELSE IF monocular /\ ~res[monocularSerialNumber] THEN FALSE
    ELSE TRUE

NoParams == [k \in {} |-> 0]

\* Mutant of nothingToDo: retrieve never returns early.
nothingToDo_Never(stereo, monocular) == FALSE

\* nothing to do?  if (!stereo && !monocular) return true;
nothingToDo(stereo, monocular) == ~stereo /\ ~monocular

trigger(r, stereo, monocular0, env) ==
    LET monocular == narrowMonocular(monocular0)
        r1 == executeNx(r, Command("Trigger", captureCameras(stereo, monocular),
                                   NoParams), env)
    IN IF r1.status # "ok" THEN r1
       ELSE Returns(r1, captureResult(stereo, monocular, LastResult(r1)))

retrieve(r, trig, timeout, stereo, monocular0, env) ==
    LET monocular == narrowMonocular(monocular0)
        r1 == executeNx(r, Command(IF trig THEN "Capture" ELSE "Retrieve",
                                   captureCameras(stereo, monocular),
                                   [Timeout |-> timeout]), env)
    IN IF r.status # "ok" THEN r
       ELSE IF nothingToDo(stereo, monocular) THEN Returns(r, TRUE)
       ELSE IF r1.status # "ok" THEN r1
       ELSE Returns(r1, captureResult(stereo, monocular, LastResult(r1)))

\* Mutant of rectifyImages: the command is not executed.
rectifyImages_Skipped(r, env) == r

rectifyImages(r, env) ==
    executeNx(r, Command("RectifyImages", SetAt(NoCameras, 0, SerialNumber),
                         NoParams), env)

\* ------------------------------------------------------ region of interest
Rect(x, y, w, h) == [x |-> x, y |-> y, width |-> w, height |-> h]
Area(roi) == roi.width * roi.height

\* Mutant of eraseAreaOfInterest: the geometry is left in place.
eraseAreaOfInterest_Skipped(r) == r

\* if (AreaOfInterest.exists()) AreaOfInterest.erase()
eraseAreaOfInterest(r) ==
    IF r.dev.aoi.exists THEN eraseNx(r, "AreaOfInterest") ELSE r

\* Mutant of setRegionOfInterest: the right-bottom corner is computed from
\* the left-top corner the device held before the call.
setRegionOfInterest_StaleCorner(r, roi) ==
    IF Area(roi) = 0
    THEN eraseAreaOfInterest(setNx(r, "UseDisparityMapAreaOfInterest", FALSE))
    ELSE LET r1 == setNx(r, "UseDisparityMapAreaOfInterest", TRUE)
             r2 == setNx(r1, "AreaOfInterest/LeftTop/0", roi.x)
             r3 == setNx(r2, "AreaOfInterest/LeftTop/1", roi.y)
             r4 == setNx(r3, "AreaOfInterest/RightBottom/0",
                         r.dev.aoi.ltx + roi.width)
         IN setNx(r4, "AreaOfInterest/RightBottom/1",
                  r.dev.aoi.lty + roi.height)

setRegionOfInterest(r, roi) ==
    IF Area(roi) = 0
    THEN eraseAreaOfInterest(setNx(r, "UseDisparityMapAreaOfInterest", FALSE))
    ELSE LET r1 == setNx(r, "UseDisparityMapAreaOfInterest", TRUE)
             r2 == setNx(r1, "AreaOfInterest/LeftTop/0", roi.x)
             r3 == setNx(r2, "AreaOfInterest/LeftTop/1", roi.y)
             r4 == setNx(r3, "AreaOfInterest/RightBottom/0", roi.x + roi.width)
         IN setNx(r4, "AreaOfInterest/RightBottom/1", roi.y + roi.height)

\* ---------------------------------------------------------------- loading
\* Reading binary data or its size from a node of `camera`.  The read can
\* fail, and the failure is thrown.  A read through the absent monocular
\* handle (get() on an empty optional) is undefined: the process aborts, the
\* library throws, or the read yields whatever it finds.
readNx(r, camera, path, env) ==
    LET entry(ok) == [ev |-> "read", name |-> path,
                      cameras |-> SetAt(NoCameras, 0, camera), val |-> <<>>,
                      ok |-> ok, res |-> <<>>, at |-> r.dev]
    IN IF r.status # "ok" THEN r
       ELSE IF camera # NoCamera
            THEN [r EXCEPT !.log = Append(@, entry(~env.readThrows)),
                           !.status = IF env.readThrows THEN "error" ELSE "ok"]
            ELSE [r EXCEPT !.log = Append(@, entry(FALSE)),
                           !.status = CASE env.undefined = "abort" -> "crashed"
                                        [] env.undefined = "throw" -> "error"
                                        [] OTHER -> "ok"]

\* The settings of a parameters file, written to the stereo camera's node.
ApplyParameters(d, content) ==
    LET write(dd, path) ==
            IF path \in DOMAIN content THEN WriteProp(dd, path, content[path])
            ELSE dd
    IN write(write(write(write(d, "FlexView"), "Projector"), "FrontLight"),
             "UseDisparityMapAreaOfInterest")

\* setNxJsonFromFile(item, file) on the parameters node of `camera`: the
\* file's settings are written to the node when the file loads.
setNxJsonFromFile(r, camera, parameters_file, env) ==
    IF r.status # "ok" THEN r
    ELSE [r EXCEPT !.dev = IF env.fileLoads /\ camera = SerialNumber
                           THEN ApplyParameters(@, env.fileContent)
                           ELSE @,
                   !.log = Append(@, [ev |-> "set", name |-> "Parameters",
                                      cameras |-> SetAt(NoCameras, 0, camera),
                                      val |-> parameters_file,
                                      ok |-> env.fileLoads, res |-> <<>>,
                                      at |-> r.dev]),
                   !.ret = env.fileLoads]

\* loadParameters: the file is loaded into the stereo camera's parameters
\* node, and the node is then dumped to params.json, a file outside the
\* state kept here.
loadParameters(r, parameters_file, env) ==
    setNxJsonFromFile(r, SerialNumber, parameters_file, env)

loadMonocularParameters(r, parameters_file, env) ==
    IF monocular_camera = NoCamera THEN [r EXCEPT !.status = "error"]
    ELSE setNxJsonFromFile(r, monocular_camera, parameters_file, env)

loadMonocularUeyeParameters(r, parameters_file, env) ==
    IF monocular_camera = NoCamera THEN [r EXCEPT !.status = "error"]
    ELSE Returns(executeNx(r, Command("LoadUEyeParameterSet", NoCameras,
                                      [Filename |-> parameters_file]), env),
                 "void")

getIntensitySize(r, env) ==
    Returns(readNx(r, monocular_camera, "Images/Raw", env), env.size)

loadIntensity(r, capture, env) ==
    LET r1 == IF capture
              THEN retrieve(r, TRUE, CaptureTimeout,
                            monocular_camera = NoCamera,
                            monocular_camera # NoCamera, env)
              ELSE r
    IN IF monocular_camera # NoCamera
       THEN Returns(readNx(r1, monocular_camera, "Images/Raw", env), "image")
       ELSE Returns(readNx(rectifyImages(r1, env), SerialNumber,
                           "Images/Rectified/Left", env), "image")

\* The head shared by loadPointCloud and loadRegisteredPointCloud: capture,
\* region of interest, disparity map.
computeDisparity(r, roi, capture, env) ==
    LET r1 == IF capture
              THEN retrieve(r, TRUE, CaptureTimeout, TRUE, TRUE, env)
              ELSE r
        r2 == setRegionOfInterest(r1, roi)
    IN executeNx(r2, Command("ComputeDisparityMap",
                             SetAt(NoCameras, 0, SerialNumber), NoParams), env)

loadPointCloud(r, roi, capture, env) ==
    LET r1 == computeDisparity(r, roi, capture, env)
        r2 == executeNx(r1, Command("ComputePointMap",
                                    SetAt(NoCameras, 0, SerialNumber),
                                    NoParams), env)
    IN Returns(readNx(r2, SerialNumber, "Images/PointMap", env), "cloud")

loadRegisteredPointCloud(r, roi, capture, env) ==
    LET r1 == computeDisparity(r, roi, capture, env)
        r2 == setNx(r1, "RenderPointMap/UseOpenGL", FALSE)
        r3 == executeNx(r2, Command("RenderPointMap", NoCameras,
                                    [Near |-> 1,
                                     Camera |-> monocularSerialNumber]), env)
    IN Returns(readNx(r3, SerialNumber, "Images/RenderPointMap", env), "cloud")

\* ------------------------------------------------------------- calibration
\* flexView(): -1 when the property cannot be read as an int
flexView(d) == IF d.flexView.enabled THEN d.flexView.level ELSE -1

setFlexView(r, value) == setNx(r, "FlexView", value)
setFrontLight(r, state) == setNx(r, "FrontLight", state)
setProjector(r, state) == setNx(r, "Projector", state)

\* if (flex_view > 0) setFlexView(0)
\* Mutant of disableFlexView: the level is left as it is.
disableFlexView_Skipped(r, flex_view) == r

\* Mutant of disableFlexView: every level but 0 is written to 0.
disableFlexView_NonZero(r, flex_view) ==
    IF flex_view # 0 THEN setFlexView(r, 0) ELSE r

disableFlexView(r, flex_view) ==
    IF flex_view > 0 THEN setFlexView(r, 0) ELSE r

\* Mutant of restoreFlexView: the saved level is never written back.
restoreFlexView_Skipped(r, flex_view) == r

\* if (flex_view > 0) setFlexView(flex_view)
restoreFlexView(r, flex_view) ==
    IF flex_view > 0 THEN setFlexView(r, flex_view) ELSE r

\* setProjector(false); setFrontLight(true)
\* Mutant of frontLightOn: the projector is left as it is.
frontLightOn_ProjectorStays(r) == setFrontLight(r, TRUE)

frontLightOn(r) == setFrontLight(setProjector(r, FALSE), TRUE)

\* Mutant of frontLightOff: the projector is not switched on again.
frontLightOff_NoProjector(r) == setFrontLight(r, FALSE)

\* setFrontLight(false); setProjector(true)
frontLightOff(r) == setProjector(setFrontLight(r, FALSE), TRUE)

\* retrieve(true, 1500, true, false), its return value dropped
captureForPattern(r, env) ==
    retrieve(r, TRUE, CaptureTimeout, TRUE, FALSE, env)

\* Mutant of discardCalibrationPatterns: the stored patterns are kept.
discardCalibrationPatterns_Skipped(r, env) == r

discardCalibrationPatterns(r, env) ==
    executeNx(r, Command("DiscardPatterns", NoCameras, NoParams), env)

recordCalibrationPattern(r, env) ==
    LET flex_view == flexView(r.dev)
        r1 == disableFlexView(r, flex_view)
        r2 == frontLightOn(r1)
        r3 == captureForPattern(r2, env)
        r4 == frontLightOff(r3)
        r5 == executeNx(r4, Command("CollectPattern",
                                    SetAt(NoCameras, 0, SerialNumber),
                                    [DecodeData |-> TRUE]), env)
    IN IF r.status # "ok" THEN r
       ELSE Returns(restoreFlexView(r5, flex_view), "void")

\* for (int i = 0; i < samples; ++i) recordCalibrationPattern()
RECURSIVE recordLoop(_, _, _)
recordLoop(r, left, env) ==
    IF left <= 0 THEN r
    ELSE recordLoop(recordCalibrationPattern(r, env), left - 1, env)

None == [has |-> FALSE, val |-> Identity]
Some(p) == [has |-> TRUE, val |-> p]

\* Mutant of getWorkspaceCalibrationFrame: the error of asString is not
\* looked at.
getWorkspaceCalibrationFrame_IgnoresError(d) == d.linkTarget

\* item.asString(&error); return error ? "" : result
getWorkspaceCalibrationFrame(d) ==
    IF d.linkTarget = NoTarget THEN "" ELSE d.linkTarget

\* Mutant of getWorkspaceCalibration: the frame name is not consulted.
getWorkspaceCalibration_AlwaysSome(d) == Some(ScaleDown(d.link))

getWorkspaceCalibration(d) ==
    IF getWorkspaceCalibrationFrame(d) = "" THEN None
    ELSE Some(ScaleDown(d.link))

detectCalibrationPattern(r, samples, ignore_calibration, env) ==
    LET r1 == discardCalibrationPatterns(r, env)
        r2 == recordLoop(r1, samples, env)
        flex_view == flexView(r2.dev)
        r3 == disableFlexView(r2, flex_view)
        r4 == executeNx(r3, Command("EstimatePatternPose", NoCameras, NoParams),
                        env)
        r5 == restoreFlexView(r4, flex_view)
        result == ScaleDown(LastResult(r4))
        camera_pose == getWorkspaceCalibration(r5.dev)
    IN IF r4.status # "ok" THEN r4
       ELSE IF ignore_calibration /\ camera_pose.has
            THEN Returns(r5, Compose(camera_pose.val, result))
            ELSE Returns(r5, result)

\* computeCalibration builds its parameters, runs the solver and reads the
\* result back.
handEyeParams(robot_poses, moving, camera_guess, pattern_guess, target) ==
    (IF camera_guess.has THEN "Link" :> ScaleUp(camera_guess.val) ELSE NoParams)
    @@ (IF pattern_guess.has
        THEN "PatternPose" :> ScaleUp(pattern_guess.val) ELSE NoParams)
    @@ ("Setup" :> (IF moving THEN "Moving" ELSE "Fixed"))
    @@ (IF target # "" THEN "Target" :> target ELSE NoParams)
    @@ ("Transformations" :>
            [i \in 1..Len(robot_poses) |-> ScaleUp(robot_poses[i])])

\* Mutant of computeCalibration: a failing solver run discards the patterns.
computeCalibration_DiscardsOnFailure(r, robot_poses, moving, camera_guess, pattern_guess, target, env) ==
    LET r1 == executeNx(r, Command("CalibrateHandEye", NoCameras,
                                   handEyeParams(robot_poses, moving,
                                                 camera_guess, pattern_guess,
                                                 target)), env)
        res == LastResult(r1)
    IN IF r1.status # "ok" THEN [r1 EXCEPT !.dev.patterns = 0]
       ELSE Returns(r1, [camera_pose  |-> ScaleDown(Inverse(r1.dev.link)),
                         pattern_pose |-> ScaleDown(res.PatternPose),
                         iterations   |-> res.Iterations])

computeCalibration(r, robot_poses, moving, camera_guess, pattern_guess, target, env) ==
    LET r1 == executeNx(r, Command("CalibrateHandEye", NoCameras,
                                   handEyeParams(robot_poses, moving,
                                                 camera_guess, pattern_guess,
                                                 target)), env)
        res == LastResult(r1)
    IN IF r1.status # "ok" THEN r1
       ELSE Returns(r1, [camera_pose  |-> ScaleDown(Inverse(r1.dev.link)),
                         pattern_pose |-> ScaleDown(res.PatternPose),
                         iterations   |-> res.Iterations])

\* --------------------------------------------------- workspace calibration
storeWorkspaceCalibration(r, env) ==
    executeNx(r, Command("StoreCalibration", SetAt(NoCameras, 0, SerialNumber),
                         [Calibration |-> TRUE, Link |-> TRUE]), env)

\* Mutant of storeIfAsked: the calibration is stored whatever was asked.
storeIfAsked_Always(r, store, env) == storeWorkspaceCalibration(r, env)

\* if (store) storeWorkspaceCalibration()
storeIfAsked(r, store, env) ==
    IF store THEN storeWorkspaceCalibration(r, env) ELSE r

workspaceParams(workspace, frame_id, defined_pose) ==
    ("PatternPose" :> ScaleUp(workspace))
    @@ (IF frame_id # "" THEN "Target" :> frame_id ELSE NoParams)
    @@ ("DefinedPose" :> ScaleUp(defined_pose))

setWorkspaceCalibration(r, workspace, frame_id, defined_pose, store, env) ==
    LET r1 == executeNx(r, Command("CalibrateWorkspace",
                                   SetAt(NoCameras, 0, SerialNumber),
                                   workspaceParams(workspace, frame_id,
                                                   defined_pose)), env)
    IN Returns(storeIfAsked(r1, store, env), "void")

\* serialNumber() + "_frame"
clearedFrameName == SerialNumber \o "_frame"

\* setNx(ensenso_camera[itmLink][itmTarget], serialNumber() + "_frame")
resetTargetName(r) == setNx(r, "Link/Target", clearedFrameName)

clearWorkspaceCalibration(r, store, env) ==
    LET r1 == executeNx(r, Command("CalibrateWorkspace",
                                   SetAt(NoCameras, 0, SerialNumber),
                                   [Target |-> ""]), env)
        r2 == resetTargetName(r1)
    IN IF getWorkspaceCalibrationFrame(r.dev) = "" THEN Returns(r, "void")
       ELSE Returns(storeIfAsked(r2, store, env), "void")

\* ---------------------------------------------------------------- inputs
BaseEnv == [failAt |-> 0, lost |-> {}, patternPose |-> Identity,
            link |-> Identity, iterations |-> 0, clearResetsTarget |-> FALSE,
            undefined |-> "abort", fileLoads |-> TRUE, readThrows |-> FALSE,
            fileContent |-> [k \in {} |-> 0],
            size |-> [width |-> 1, height |-> 1]]

\* What a read through the absent handle can do.
UndefinedOutcomes == {"abort", "throw", "garbage"}

ImageSizes == {[width |-> 1, height |-> 1], [width |-> 2, height |-> 1]}

ParameterFiles == {"camera.json"}

\* What a parameters file can hold: nothing the model tracks, or capture
\* settings.
ParameterContents ==
    {[k \in {} |-> 0],
     ("FlexView" :> MaxFlexView) @@ ("Projector" :> FALSE)
        @@ ("FrontLight" :> TRUE) @@ ("UseDisparityMapAreaOfInterest" :> TRUE)}

LoadRois == {Rect(0, 0, 0, 0), Rect(0, 0, MaxCoord, MaxCoord)}

DevicePoses == {Identity, Pose(-1, 2500000), Pose(1, 1000)}   \* millimetres
ApiPoses    == {Pose(1, 2000), Pose(-1, 500)}                 \* metres
Timeouts    == {0, CaptureTimeout}

\* The record a call leaves behind.
Call(op, args, r) ==
    [op |-> op, args |-> args, pre |-> dev, status |-> r.status,
     ret |-> IF r.status = "ok" THEN r.ret ELSE "error", log |-> r.log]

\* A call on the live session: the handler's effect on the device, and its
\* record.
Finish(op, args, r) ==
    /\ dev' = r.dev
    /\ eeprom' = r.eeprom
    /\ last' = Call(op, args, r)
    /\ UNCHANGED <<session, sessions, attached, nxlib, ensenso_camera,
                   monocular_camera>>

\* -------------------------------------------------------------- lifecycle
\* openCameraByType(valStereo) / openCameraBySerial(serial): the cameras
\* the lookup can return.
openCandidates(serial) ==
    IF serial = "" THEN attached \cap StereoSerials
    ELSE attached \cap {serial}

\* openCameraByLink(serial): the answers the lookup can give.
linkAnswers(cam) ==
    {"none", "throws"} \cup
    (IF cam = "S1" /\ MonoSerial \in attached THEN {"found"} ELSE {})

\* nxLibInitialize()
nxLibInitialize(n) == [n EXCEPT !.initialized = @ + 1]

\* nxLibFinalize()
nxLibFinalize(n) == [n EXCEPT !.finalized = @ + 1]

\* Ensenso::Ensenso with no camera to open: the constructor throws.
ConstructNotFound(serial, connect_monocular) ==
    /\ session \in {"none", "failed", "destroyed"}
    /\ sessions < MaxSessions
    /\ openCandidates(serial) = {}
    /\ sessions' = sessions + 1
    /\ nxlib' = nxLibInitialize(nxlib)
    /\ session' = "failed"
    /\ ensenso_camera' = ""
    /\ monocular_camera' = NoCamera
    /\ last' = [Call("Ensenso", [serial |-> serial,
                                 connect_monocular |-> connect_monocular],
                     Start(dev, eeprom)) EXCEPT !.status = "error",
                                                !.ret = "error"]
    /\ UNCHANGED <<attached, dev, eeprom>>

\* Ensenso::Ensenso with the stereo camera opened; the linked-camera lookup
\* finds the monocular camera, finds none, or throws.
ConstructOpened(serial, connect_monocular, cam, answer) ==
    /\ session \in {"none", "failed", "destroyed"}
    /\ sessions < MaxSessions
    /\ cam \in openCandidates(serial)
    /\ answer \in linkAnswers(cam)
    /\ sessions' = sessions + 1
    /\ nxlib' = [nxLibInitialize(nxlib) EXCEPT !.opened = @ + 1]
    /\ ensenso_camera' = cam
    /\ LET thrown == connect_monocular /\ answer = "throws"
       IN /\ session' = IF thrown THEN "failed" ELSE "live"
          /\ monocular_camera' =
                IF connect_monocular /\ answer = "found"
                THEN MonoSerial ELSE NoCamera
          /\ last' = [Call("Ensenso", [serial |-> serial,
                                       connect_monocular |-> connect_monocular],
                           Start(dev, eeprom))
                        EXCEPT !.status = IF thrown THEN "error" ELSE "ok",
                               !.ret = IF thrown THEN "error" ELSE "void"]
    /\ UNCHANGED <<attached, dev, eeprom>>

Construct ==
    \E serial \in {""} \cup StereoSerials, connect_monocular \in BOOLEAN :
        \/ ConstructNotFound(serial, connect_monocular)
        \/ \E cam \in StereoSerials, answer \in {"found", "none", "throws"} :
              ConstructOpened(serial, connect_monocular, cam, answer)

\* Ensenso::~Ensenso: the close command, then nxLibFinalize().  A failing
\* close throws out of the destructor, which ends the process.
Destroy ==
    /\ session = "live"
    /\ \E failAt \in 0..1 :
          LET r == executeNx(Start(dev, eeprom),
                             Command("Close", NoCameras, NoParams),
                             [BaseEnv EXCEPT !.failAt = failAt])
          IN /\ session' = IF r.status = "ok" THEN "destroyed" ELSE "terminated"
             /\ nxlib' = IF r.status = "ok"
                         THEN [nxLibFinalize(nxlib) EXCEPT !.closed = @ + 1]
                         ELSE nxlib
             /\ last' = Call("~Ensenso", <<>>, r)
    /\ UNCHANGED <<sessions, attached, ensenso_camera, monocular_camera,
                   dev, eeprom>>

\* ------------------------------------------------------------- operations
Live == session = "live"

CaptureLost(ordinals) ==
    SUBSET (ordinals \X {SerialNumber, MonoSerial})

Trigger ==
    /\ Live
    /\ \E stereo \in BOOLEAN, monocular \in BOOLEAN, failAt \in 0..1,
          lost \in CaptureLost({1}) :
          Finish("trigger", [stereo |-> stereo, monocular |-> monocular],
                 trigger(Start(dev, eeprom), stereo, monocular,
                         [BaseEnv EXCEPT !.failAt = failAt, !.lost = lost]))

Retrieve ==
    /\ Live
    /\ \E trig \in BOOLEAN, timeout \in Timeouts, stereo \in BOOLEAN,
          monocular \in BOOLEAN, failAt \in 0..1, lost \in CaptureLost({1}) :
          Finish("retrieve", [trigger |-> trig, timeout |-> timeout,
                              stereo |-> stereo, monocular |-> monocular],
                 retrieve(Start(dev, eeprom), trig, timeout, stereo, monocular,
                          [BaseEnv EXCEPT !.failAt = failAt, !.lost = lost]))

SetRegionOfInterest ==
    /\ Live
    /\ \E x \in 0..MaxCoord, y \in 0..MaxCoord, w \in 0..MaxCoord,
          h \in 0..MaxCoord :
          Finish("setRegionOfInterest", [roi |-> Rect(x, y, w, h)],
                 setRegionOfInterest(Start(dev, eeprom), Rect(x, y, w, h)))

SetFlexView ==
    /\ Live
    /\ \E value \in 0..MaxFlexView :
          Finish("setFlexView", [value |-> value],
                 setFlexView(Start(dev, eeprom), value))

SetFrontLight ==
    /\ Live
    /\ \E state \in BOOLEAN :
          Finish("setFrontLight", [state |-> state],
                 setFrontLight(Start(dev, eeprom), state))

SetProjector ==
    /\ Live
    /\ \E state \in BOOLEAN :
          Finish("setProjector", [state |-> state],
                 setProjector(Start(dev, eeprom), state))

DiscardCalibrationPatterns ==
    /\ Live
    /\ \E failAt \in 0..1 :
          Finish("discardCalibrationPatterns", <<>>,
                 discardCalibrationPatterns(Start(dev, eeprom),
                     [BaseEnv EXCEPT !.failAt = failAt]))

RecordCalibrationPattern ==
    /\ Live
    /\ dev.patterns < MaxPatterns
    /\ \E failAt \in 0..2, lost \in SUBSET {<<1, SerialNumber>>} :
          Finish("recordCalibrationPattern", <<>>,
                 recordCalibrationPattern(Start(dev, eeprom),
                     [BaseEnv EXCEPT !.failAt = failAt, !.lost = lost]))

DetectCalibrationPattern ==
    /\ Live
    /\ \E samples \in (-1)..MaxSamples, ignore_calibration \in BOOLEAN,
          patternPose \in {Identity, Pose(-1, 2500000)} :
       \E failAt \in 0..(2 * samples + 2),
          lost \in {{}, {<<2 * i, SerialNumber>> : i \in 1..samples}} :
          Finish("detectCalibrationPattern",
                 [samples |-> samples,
                  ignore_calibration |-> ignore_calibration],
                 detectCalibrationPattern(Start(dev, eeprom), samples,
                     ignore_calibration,
                     [BaseEnv EXCEPT !.failAt = failAt, !.lost = lost,
                                     !.patternPose = patternPose]))

RobotPoses == {[i \in 1..n |-> Pose(1, 1000 * i)] : n \in 0..MaxPoses}

ComputeCalibration ==
    /\ Live
    /\ \E robot_poses \in RobotPoses, moving \in BOOLEAN,
          camera_guess \in {None, Some(Pose(-1, 500))},
          pattern_guess \in {None, Some(Pose(1, 250))},
          target \in {"", "world"}, failAt \in 0..1,
          link \in {Identity, Pose(-1, 2500000)} :
          Finish("computeCalibration",
                 [robot_poses |-> robot_poses, moving |-> moving,
                  camera_guess |-> camera_guess,
                  pattern_guess |-> pattern_guess, target |-> target],
                 computeCalibration(Start(dev, eeprom), robot_poses, moving,
                     camera_guess, pattern_guess, target,
                     [BaseEnv EXCEPT !.failAt = failAt, !.link = link,
                                     !.patternPose = Pose(1, 1000),
                                     !.iterations = Len(robot_poses)]))

SetWorkspaceCalibration ==
    /\ Live
    /\ \E workspace \in ApiPoses, frame_id \in FrameIds, store \in BOOLEAN,
          failAt \in 0..2, link \in DevicePoses :
          Finish("setWorkspaceCalibration",
                 [workspace |-> workspace, frame_id |-> frame_id,
                  store |-> store],
                 setWorkspaceCalibration(Start(dev, eeprom), workspace,
                     frame_id, Identity, store,
                     [BaseEnv EXCEPT !.failAt = failAt, !.link = link]))

ClearWorkspaceCalibration ==
    /\ Live
    /\ \E store \in BOOLEAN, failAt \in 0..2, resets \in BOOLEAN :
          Finish("clearWorkspaceCalibration", [store |-> store],
                 clearWorkspaceCalibration(Start(dev, eeprom), store,
                     [BaseEnv EXCEPT !.failAt = failAt,
                                     !.clearResetsTarget = resets]))

StoreWorkspaceCalibration ==
    /\ Live
    /\ \E failAt \in 0..1 :
          Finish("storeWorkspaceCalibration", <<>>,
                 storeWorkspaceCalibration(Start(dev, eeprom),
                     [BaseEnv EXCEPT !.failAt = failAt]))

\* A call that may end the process: an abort leaves no live session.
FinishOrAbort(op, args, r) ==
    /\ dev' = r.dev
    /\ eeprom' = r.eeprom
    /\ last' = Call(op, args, r)
    /\ session' = IF r.status = "crashed" THEN "terminated" ELSE session
    /\ UNCHANGED <<sessions, attached, nxlib, ensenso_camera, monocular_camera>>

LoadParameters ==
    /\ Live
    /\ \E parameters_file \in ParameterFiles, fileLoads \in BOOLEAN,
          fileContent \in ParameterContents :
          Finish("loadParameters", [parameters_file |-> parameters_file],
                 loadParameters(Start(dev, eeprom), parameters_file,
                     [BaseEnv EXCEPT !.fileLoads = fileLoads,
                                     !.fileContent = fileContent]))

LoadMonocularParameters ==
    /\ Live
    /\ \E parameters_file \in ParameterFiles, fileLoads \in BOOLEAN :
          Finish("loadMonocularParameters",
                 [parameters_file |-> parameters_file],
                 loadMonocularParameters(Start(dev, eeprom), parameters_file,
                     [BaseEnv EXCEPT !.fileLoads = fileLoads]))

LoadMonocularUeyeParameters ==
    /\ Live
    /\ \E parameters_file \in ParameterFiles, failAt \in 0..1 :
          Finish("loadMonocularUeyeParameters",
                 [parameters_file |-> parameters_file],
                 loadMonocularUeyeParameters(Start(dev, eeprom),
                     parameters_file, [BaseEnv EXCEPT !.failAt = failAt]))

GetIntensitySize ==
    /\ Live
    /\ \E undefined \in UndefinedOutcomes, size \in ImageSizes,
          readThrows \in BOOLEAN :
          FinishOrAbort("getIntensitySize", <<>>,
                        getIntensitySize(Start(dev, eeprom),
                            [BaseEnv EXCEPT !.undefined = undefined,
                                            !.size = size,
                                            !.readThrows = readThrows]))

LoadIntensity ==
    /\ Live
    /\ \E capture \in BOOLEAN, failAt \in 0..2, lost \in CaptureLost({1}),
          readThrows \in BOOLEAN :
          Finish("loadIntensity", [capture |-> capture],
                 loadIntensity(Start(dev, eeprom), capture,
                     [BaseEnv EXCEPT !.failAt = failAt, !.lost = lost,
                                     !.readThrows = readThrows]))

LoadPointCloud ==
    /\ Live
    /\ \E roi \in LoadRois, capture \in BOOLEAN, failAt \in 0..3,
          lost \in CaptureLost({1}), readThrows \in BOOLEAN :
          Finish("loadPointCloud", [roi |-> roi, capture |-> capture],
                 loadPointCloud(Start(dev, eeprom), roi, capture,
                     [BaseEnv EXCEPT !.failAt = failAt, !.lost = lost,
                                     !.readThrows = readThrows]))

LoadRegisteredPointCloud ==
    /\ Live
    /\ \E roi \in LoadRois, capture \in BOOLEAN, failAt \in 0..3,
          lost \in CaptureLost({1}), readThrows \in BOOLEAN :
          Finish("loadRegisteredPointCloud", [roi |-> roi, capture |-> capture],
                 loadRegisteredPointCloud(Start(dev, eeprom), roi, capture,
                     [BaseEnv EXCEPT !.failAt = failAt, !.lost = lost,
                                     !.readThrows = readThrows]))

\* --------------------------------------------------------- specifications
InitSession ==
    /\ session = "none"
    /\ sessions = 0
    /\ nxlib = [initialized |-> 0, finalized |-> 0, opened |-> 0, closed |-> 0]
    /\ ensenso_camera = ""
    /\ monocular_camera = NoCamera
    /\ eeprom = [link |-> Identity, linkTarget |-> ""]
    /\ last = NoCall

\* Construction and destruction, with any set of cameras connected.
InitLifecycle ==
    /\ InitSession
    /\ attached \in SUBSET Serials
    /\ dev = DefaultDev

NextLifecycle == Construct \/ Destroy

SpecLifecycle == InitLifecycle /\ [][NextLifecycle]_vars

\* The state after a successful construction on camera S1, with or without
\* its monocular camera.
InitLive(monos) ==
    /\ session = "live"
    /\ sessions = 1
    /\ nxlib = [initialized |-> 1, finalized |-> 0, opened |-> 1, closed |-> 0]
    /\ ensenso_camera = "S1"
    /\ monocular_camera \in monos
    /\ attached = {"S1"} \cup (IF monocular_camera = NoCamera THEN {}
                               ELSE {MonoSerial})
    /\ eeprom = [link |-> Identity, linkTarget |-> ""]
    /\ last = NoCall

\* Capturing, with and without the monocular camera.
InitCapture ==
    /\ InitLive({NoCamera, MonoSerial})
    /\ dev = DefaultDev

NextCapture == Trigger \/ Retrieve

SpecCapture == InitCapture /\ [][NextCapture]_vars

\* The region of interest, from any area-of-interest setting the camera
\* may hold when the session opens.
InitROI ==
    /\ InitLive({NoCamera})
    /\ \E flag \in BOOLEAN, aoi \in {NoAoi, [exists |-> TRUE, ltx |-> 0, lty |-> 0,
                                              rbx |-> 1, rby |-> 1]} :
          dev = [DefaultDev EXCEPT !.useAoi = flag, !.aoi = aoi]

NextROI == SetRegionOfInterest

SpecROI == InitROI /\ [][NextROI]_vars

\* Pattern recording and detection, from any illumination and flex-view
\* setting, any number of stored patterns, with and without a workspace
\* calibration.
InitRecord ==
    /\ InitLive({NoCamera})
    /\ \E fv \in FlexValues, p \in BOOLEAN, f \in BOOLEAN,
          n \in 0..MaxPatterns, t \in {"", "world"} :
          dev = [DefaultDev EXCEPT !.flexView = fv, !.projector = p,
                                   !.frontLight = f, !.patterns = n,
                                   !.linkTarget = t,
                                   !.link = Pose(-1, 1500000)]

NextRecord ==
    \/ SetFlexView
    \/ SetFrontLight
    \/ SetProjector
    \/ RecordCalibrationPattern
    \/ DetectCalibrationPattern

SpecRecord == InitRecord /\ [][NextRecord]_vars

\* Hand-eye calibration over the patterns recorded so far.
InitHandEye ==
    /\ InitLive({NoCamera})
    /\ \E n \in 0..MaxPatterns : dev = [DefaultDev EXCEPT !.patterns = n]

NextHandEye ==
    \/ DiscardCalibrationPatterns
    \/ RecordCalibrationPattern
    \/ ComputeCalibration

SpecHandEye == InitHandEye /\ [][NextHandEye]_vars

\* Workspace calibration, from any link target the camera may hold.
InitWorkspace ==
    /\ InitLive({NoCamera})
    /\ \E t \in {NoTarget, "", "world"} :
          dev = [DefaultDev EXCEPT !.linkTarget = t]

NextWorkspace ==
    \/ SetWorkspaceCalibration
    \/ ClearWorkspaceCalibration
    \/ StoreWorkspaceCalibration

SpecWorkspace == InitWorkspace /\ [][NextWorkspace]_vars

\* Pattern detection with and without a workspace calibration, before and
\* after the calibration is cleared.
InitCompensate ==
    /\ InitLive({NoCamera})
    /\ \E t \in {NoTarget, "", "world"} :
          dev = [DefaultDev EXCEPT !.linkTarget = t,
                                   !.link = Pose(-1, 1500000)]

NextCompensate ==
    \/ ClearWorkspaceCalibration
    \/ DetectCalibrationPattern

SpecCompensate == InitCompensate /\ [][NextCompensate]_vars

\* The three calibration operations over any number of stored patterns.
InitCalibration ==
    /\ InitLive({NoCamera})
    /\ \E n \in 0..MaxPatterns : dev = [DefaultDev EXCEPT !.patterns = n]

NextCalibration ==
    \/ RecordCalibrationPattern
    \/ DetectCalibrationPattern
    \/ ComputeCalibration

SpecCalibration == InitCalibration /\ [][NextCalibration]_vars

\* Loading images, point clouds and parameters, with and without the
\* monocular camera.
InitLoad ==
    /\ InitLive({NoCamera, MonoSerial})
    /\ dev = DefaultDev

NextLoad ==
    \/ LoadParameters
    \/ LoadMonocularParameters
    \/ LoadMonocularUeyeParameters
    \/ GetIntensitySize
    \/ LoadIntensity
    \/ LoadPointCloud
    \/ LoadRegisteredPointCloud

SpecLoad == InitLoad /\ [][NextLoad]_vars

\* ------------------------------------------------------------------ claims
\* The log entries of the last call that executed the command `name`.
Execs(name) ==
    {i \in 1..Len(last.log) :
        last.log[i].ev = "exec" /\ last.log[i].name = name}

Succeeded(op) == last.op = op /\ last.status = "ok"

\* C1 (as claimed): a successful setWorkspaceCalibration followed by a
\* clearWorkspaceCalibration leaves getWorkspaceCalibration returning none
\* and Link/Target equal to serialNumber() + "_frame".
C1_ClearedReadsNone ==
    [][(/\ Succeeded("setWorkspaceCalibration")
        /\ last'.op = "clearWorkspaceCalibration"
        /\ last'.status = "ok")
       => (/\ getWorkspaceCalibration(dev') = None
           /\ dev'.linkTarget = clearedFrameName)]_vars

\* C2 (as claimed): once a construction has failed or a session has been
\* destroyed, the device subsystem has been finalized as often as it was
\* initialized and the close command has run once per opened stereo camera.
C2_ReleasedOncePerAcquire ==
    session \in {"failed", "destroyed"}
        => /\ nxlib.finalized = nxlib.initialized
           /\ nxlib.closed = nxlib.opened

\* C3 (as claimed): after a successful recordCalibrationPattern the
\* projector and the front light have the values they had before the call.
C3_IlluminationAsBefore ==
    Succeeded("recordCalibrationPattern")
        => /\ dev.projector = last.pre.projector
           /\ dev.frontLight = last.pre.frontLight

\* C3 (amended): after a successful recordCalibrationPattern the projector
\* is on and the front light is off, whatever they were before the call.
C3_IlluminationNormal ==
    Succeeded("recordCalibrationPattern")
        => dev.projector /\ ~dev.frontLight

\* C3 witness: a successful record that started with the projector off and
\* the front light on.
C3_Witness ==
    /\ Succeeded("recordCalibrationPattern")
    /\ ~last.pre.projector
    /\ last.pre.frontLight

\* C4: a successful recordCalibrationPattern and a successful
\* detectCalibrationPattern leave the flex-view property as it was at entry,
\* whether it was unreadable (-1), 0 or a positive level.
C4_FlexViewPreserved ==
    (Succeeded("recordCalibrationPattern")
        \/ Succeeded("detectCalibrationPattern"))
        => /\ dev.flexView = last.pre.flexView
           /\ flexView(dev) = flexView(last.pre)

\* C4 witness: a successful detection of at least one sample that started
\* with a positive flex-view level, which it wrote to 0 on the way.
C4_Witness ==
    /\ Succeeded("detectCalibrationPattern")
    /\ last.args.samples > 0
    /\ flexView(last.pre) > 0
    /\ \E i \in 1..Len(last.log) :
          /\ last.log[i].ev = "set"
          /\ last.log[i].name = "FlexView"
          /\ last.log[i].val = 0

\* The stereo capture of the last call failed: the command raised an error
\* or the stereo camera reported that it retrieved no image.
CaptureFailed ==
    \E i \in Execs("Capture") :
        \/ ~last.log[i].ok
        \/ ~last.log[i].res[SerialNumber]

\* C5 (as claimed): when the stereo capture inside recordCalibrationPattern
\* fails, the call reports an error and issues no CollectPattern command.
C5_CaptureFailureStopsRecord ==
    (last.op = "recordCalibrationPattern" /\ CaptureFailed)
        => /\ last.status = "error"
           /\ Execs("CollectPattern") = {}

\* C6 (as claimed): computeCalibration with fewer than 3 robot poses fails
\* and never executes CalibrateHandEye.
C6_InsufficientSamples ==
    (last.op = "computeCalibration" /\ Len(last.args.robot_poses) < 3)
        => /\ last.status = "error"
           /\ Execs("CalibrateHandEye") = {}

\* The cameras a retrieve or trigger call addresses.
Addressed ==
    (IF last.args.stereo THEN {SerialNumber} ELSE {})
    \cup (IF last.args.monocular /\ monocular_camera # NoCamera
          THEN {monocular_camera} ELSE {})

\* C7: retrieve with no device to address returns true and executes no
\* device command, for every trigger flag and timeout.
C7_NothingToRetrieve ==
    (last.op = "retrieve" /\ Addressed = {})
        => /\ last.status = "ok"
           /\ last.ret = TRUE
           /\ last.log = <<>>

\* C7 witness: retrieve asked for the monocular camera only, with no
\* monocular camera present.
C7_Witness ==
    /\ Succeeded("retrieve")
    /\ ~last.args.stereo
    /\ last.args.monocular
    /\ monocular_camera = NoCamera
    /\ last.args.trigger
    /\ last.ret = TRUE

\* C8: when retrieve addresses a device and the command succeeds, it
\* returns true exactly if every addressed device reports Retrieved.
C8_AllAddressedRetrieved ==
    (Succeeded("retrieve") /\ Addressed # {})
        => /\ Len(last.log) = 1
           /\ last.ret = (\A s \in Addressed : last.log[1].res[s])

\* C8 witness: both cameras addressed, the stereo camera retrieved, the
\* monocular camera did not, and retrieve returned false.
C8_Witness ==
    /\ Succeeded("retrieve")
    /\ Addressed = {SerialNumber, MonoSerial}
    /\ last.log[1].res[SerialNumber]
    /\ ~last.log[1].res[MonoSerial]
    /\ last.ret = FALSE

\* The camera list of log entry i is as the ordering rule asks.
CameraListInOrder(i) ==
    LET c == last.log[i].cameras
        stereo == last.args.stereo
        mono == last.args.monocular /\ monocular_camera # NoCamera
    IN /\ DOMAIN c = 0..(Cardinality(Addressed) - 1)
       /\ stereo => c[0] = SerialNumber
       /\ (mono /\ stereo) => c[1] = monocular_camera
       /\ (mono /\ ~stereo) => c[0] = monocular_camera
       /\ Range(c) = Addressed

\* C9: in every trigger and retrieve command the stereo serial is at index
\* 0 when requested, the monocular serial follows it (or is at index 0 when
\* alone), the list has no gaps and names no absent monocular camera.
C9_CameraOrder ==
    last.op \in {"trigger", "retrieve"}
        => \A i \in 1..Len(last.log) : CameraListInOrder(i)

\* C9 witness: a trigger command for the monocular camera alone.
C9_Witness ==
    /\ last.op = "trigger"
    /\ ~last.args.stereo
    /\ last.args.monocular
    /\ monocular_camera = MonoSerial
    /\ Len(last.log) = 1
    /\ last.log[1].cameras[0] = MonoSerial

\* C10: after a setRegionOfInterest with a zero-area ROI the flag
\* UseDisparityMapAreaOfInterest is false and the AreaOfInterest node does
\* not exist, whatever was configured before.
C10_UnrestrictedErases ==
    (last.op = "setRegionOfInterest" /\ Area(last.args.roi) = 0)
        => /\ ~dev.useAoi
           /\ ~dev.aoi.exists

\* C10 witness: an unrestricted ROI set on a camera that had the flag on
\* and a rectangle configured by an earlier call.
C10_Witness ==
    /\ last.op = "setRegionOfInterest"
    /\ Area(last.args.roi) = 0
    /\ last.pre.useAoi
    /\ last.pre.aoi.exists
    /\ last.pre.aoi.rbx > 1
    /\ ~dev.aoi.exists

\* C11: setRegionOfInterest is idempotent: a call with the ROI of the call
\* before it leaves the area-of-interest flag and geometry as that call
\* left them, for an unrestricted ROI and for a rectangle.
C11_RoiIdempotent ==
    [][(/\ last.op = "setRegionOfInterest"
        /\ last'.op = "setRegionOfInterest"
        /\ last'.args.roi = last.args.roi)
       => (/\ dev'.useAoi = dev.useAoi
           /\ dev'.aoi = dev.aoi)]_vars

\* C11 witness: a rectangle applied to a camera that already held exactly
\* that rectangle, written by an earlier call.
C11_Witness ==
    /\ last.op = "setRegionOfInterest"
    /\ Area(last.args.roi) > 0
    /\ last.args.roi.x = 1
    /\ last.pre.useAoi
    /\ last.pre.aoi = [exists |-> TRUE,
                       ltx |-> last.args.roi.x, lty |-> last.args.roi.y,
                       rbx |-> last.args.roi.x + last.args.roi.width,
                       rby |-> last.args.roi.y + last.args.roi.height]
    /\ dev.aoi = last.pre.aoi
    /\ dev.useAoi

\* C12: clearWorkspaceCalibration with no workspace calibration active (the
\* frame name empty or unreadable) executes no command, writes no property,
\* stores nothing even with store = true, and returns without error.
C12_ClearInactiveIsNoOp ==
    (/\ last.op = "clearWorkspaceCalibration"
     /\ last.pre.linkTarget \in {"", NoTarget})
        => /\ last.status = "ok"
           /\ last.log = <<>>
           /\ dev = last.pre

\* C12 witness: a clear with store = true on a camera whose Link/Target
\* cannot be read as a string.
C12_Witness ==
    /\ Succeeded("clearWorkspaceCalibration")
    /\ last.args.store
    /\ last.pre.linkTarget = NoTarget
    /\ last.log = <<>>

\* The number of patterns detectCalibrationPattern is asked to record.
Asked == IF last.args.samples > 0 THEN last.args.samples ELSE 0

\* C13: detectCalibrationPattern executes the discard command first, before
\* any record, so that pose estimation always runs on exactly `samples`
\* patterns (none when samples <= 0), however many were stored before.
C13_DiscardThenSamples ==
    last.op = "detectCalibrationPattern"
        => /\ Len(last.log) >= 1
           /\ last.log[1].ev = "exec"
           /\ last.log[1].name = "DiscardPatterns"
           /\ \A i \in Execs("CollectPattern") : last.log[1].ok
           /\ \A i \in Execs("EstimatePatternPose") :
                 last.log[i].at.patterns = Asked

\* C13 witness: pose estimation ran on one pattern in a call that asked for
\* one sample on a camera that held two patterns.
C13_Witness ==
    /\ last.op = "detectCalibrationPattern"
    /\ last.args.samples = 1
    /\ last.pre.patterns = 2
    /\ \E i \in Execs("EstimatePatternPose") : last.log[i].at.patterns = 1

\* A workspace calibration is active when the camera names a frame other
\* than the one written by clearWorkspaceCalibration.
WorkspaceActive(d) == d.linkTarget \notin {"", NoTarget, clearedFrameName}

\* C14: detectCalibrationPattern returns the workspace transform composed on
\* the left of the estimated pattern pose exactly when the flag is true and a
\* workspace calibration is active; with the flag false, with no calibration,
\* and after the calibration has been cleared, it returns the estimated pose
\* in metres.
C14_CompensatesIffActive ==
    Succeeded("detectCalibrationPattern")
        => \E i \in Execs("EstimatePatternPose") :
              LET raw == ScaleDown(last.log[i].res)
                  workspace == ScaleDown(last.pre.link)
              IN last.ret = IF /\ last.args.ignore_calibration
                               /\ WorkspaceActive(last.pre)
                            THEN Compose(workspace, raw)
                            ELSE raw

\* C14 witness: a detection on a calibrated camera returned a pose that is
\* the composition and differs from the estimated one.
C14_Witness ==
    /\ Succeeded("detectCalibrationPattern")
    /\ last.args.ignore_calibration
    /\ WorkspaceActive(last.pre)
    /\ \E i \in Execs("EstimatePatternPose") :
          /\ last.ret # ScaleDown(last.log[i].res)
          /\ last.ret # Compose(ScaleDown(last.log[i].res),
                                ScaleDown(last.pre.link))

\* A detection with the flag set on a camera whose calibration was cleared.
C14_ClearedCase ==
    /\ Succeeded("detectCalibrationPattern")
    /\ last.args.ignore_calibration
    /\ last.pre.linkTarget = clearedFrameName
    /\ \E i \in Execs("EstimatePatternPose") : last.log[i].res # Identity

\* The last call was a calibration operation that failed.
CalibrationFailed ==
    /\ last.op \in {"recordCalibrationPattern", "detectCalibrationPattern",
                    "computeCalibration"}
    /\ last.status = "error"

\* The number of patterns the last call collected.
Collected == Cardinality({i \in Execs("CollectPattern") : last.log[i].ok})

\* C15 (as claimed): when recordCalibrationPattern, detectCalibrationPattern
\* or computeCalibration fails, the patterns stored before the call are
\* still stored and no discard was executed.
C15_FailureKeepsStored ==
    CalibrationFailed
        => /\ dev.patterns >= last.pre.patterns
           /\ \A i \in Execs("DiscardPatterns") : ~last.log[i].ok

\* C15 (amended): a failing recordCalibrationPattern or computeCalibration
\* executes no discard and leaves the stored patterns as they were; a
\* failing detectCalibrationPattern executes only the discard it starts
\* with, and after that discard the camera holds exactly the patterns the
\* call itself collected: no failure makes the operation discard patterns.
C15_FailureDiscardsNothingMore ==
    CalibrationFailed
        => IF last.op = "detectCalibrationPattern"
           THEN /\ Execs("DiscardPatterns") = {1}
                /\ dev.patterns = IF last.log[1].ok THEN Collected
                                  ELSE last.pre.patterns
           ELSE /\ Execs("DiscardPatterns") = {}
                /\ dev.patterns = last.pre.patterns

\* C15 witness: a detection failed after collecting a pattern, on a camera
\* that held two patterns before, and the collected pattern is still stored.
C15_Witness ==
    /\ CalibrationFailed
    /\ last.op = "detectCalibrationPattern"
    /\ last.pre.patterns = 2
    /\ Collected = 1
    /\ dev.patterns = 1

\* A computeCalibration failed on a camera that holds patterns.
C15_ComputeCase ==
    /\ CalibrationFailed
    /\ last.op = "computeCalibration"
    /\ last.pre.patterns > 0

\* The cameras a log entry names: those in its camera list and, for a
\* command, the one in its Camera parameter.
Named(e) ==
    Range(e.cameras) \cup
        (IF e.ev = "exec" /\ "Camera" \in DOMAIN e.val THEN {e.val.Camera}
         ELSE {})

\* C16 (as claimed): with no monocular camera, no operation reads through the
\* absent handle or names a monocular camera, by serial or by an empty
\* serial, in a command: the operation ends normally or with an error.
C16_AbsentMonocularNeverUsed ==
    monocular_camera = NoCamera
        => /\ last.status \in {"ok", "error"}
           /\ \A i \in 1..Len(last.log) :
                 Named(last.log[i]) \cap {NoCamera, "", MonoSerial} = {}

\* getIntensitySize read through the absent handle.
C16_SizeCase ==
    /\ monocular_camera = NoCamera
    /\ last.op = "getIntensitySize"
    /\ \E i \in 1..Len(last.log) : NoCamera \in Named(last.log[i])

\* loadRegisteredPointCloud named the empty serial in RenderPointMap.
C16_RegisteredCase ==
    /\ monocular_camera = NoCamera
    /\ last.op = "loadRegisteredPointCloud"
    /\ \E i \in Execs("RenderPointMap") : last.log[i].val.Camera = ""

\* loadMonocularParameters failed without touching the device.
C16_ParametersCase ==
    /\ monocular_camera = NoCamera
    /\ last.op \in {"loadMonocularParameters", "loadMonocularUeyeParameters"}
    /\ last.status = "error"
    /\ last.log = <<>>

\* The writes of the flex-view property in the last call.
FlexViewWrites ==
    {i \in 1..Len(last.log) :
        last.log[i].ev = "set" /\ last.log[i].name = "FlexView"}

\* C17: when the flex-view property cannot be read, flexView returns -1, and
\* recordCalibrationPattern and detectCalibrationPattern never write the
\* property: they leave it unreadable and complete unless a device command
\* fails.
C17_UnreadableFlexViewUntouched ==
    (/\ last.op \in {"recordCalibrationPattern", "detectCalibrationPattern"}
     /\ ~last.pre.flexView.enabled)
        => /\ flexView(last.pre) = -1
           /\ FlexViewWrites = {}
           /\ dev.flexView = last.pre.flexView
           /\ (\A i \in 1..Len(last.log) : last.log[i].ok)
                 => last.status = "ok"

\* C17 witness: a detection of one sample completed on a camera whose
\* flex-view property could not be read.
C17_Witness ==
    /\ Succeeded("detectCalibrationPattern")
    /\ last.args.samples = 1
    /\ ~last.pre.flexView.enabled
    /\ flexView(last.pre) = -1
    /\ Execs("CollectPattern") # {}
    /\ Execs("EstimatePatternPose") # {}

\* C18: within recordCalibrationPattern the stereo capture executes with
\* flex view not above 0, the projector off and the front light on; the
\* pattern-detection command executes after the capture, with the front
\* light off and the projector on again, and before the saved flex-view
\* level is written back.
C18_RecordOrder ==
    last.op = "recordCalibrationPattern"
        => /\ \A i \in Execs("Capture") :
                 /\ flexView(last.log[i].at) <= 0
                 /\ ~last.log[i].at.projector
                 /\ last.log[i].at.frontLight
           /\ \A j \in Execs("CollectPattern") :
                 /\ ~last.log[j].at.frontLight
                 /\ last.log[j].at.projector
                 /\ \E i \in Execs("Capture") : i < j
                 /\ \A k \in FlexViewWrites :
                       last.log[k].val > 0 => j < k

\* C18 witness: a recording on a camera with a positive flex-view level,
\* the projector on and the front light off went through capture, pattern
\* detection and the write of the saved level.
C18_Witness ==
    /\ Succeeded("recordCalibrationPattern")
    /\ flexView(last.pre) > 0
    /\ last.pre.projector
    /\ ~last.pre.frontLight
    /\ \E i \in Execs("Capture"), j \in Execs("CollectPattern"),
          k \in FlexViewWrites :
          /\ i < j
          /\ j < k
          /\ last.log[k].val = flexView(last.pre)

\* The last call set the workspace calibration, or cleared it on a camera
\* that named a frame.
SetOrClearedActive ==
    \/ last.op = "setWorkspaceCalibration"
    \/ /\ last.op = "clearWorkspaceCalibration"
       /\ getWorkspaceCalibrationFrame(last.pre) # ""

\* C19: in setWorkspaceCalibration, and in clearWorkspaceCalibration on a
\* camera that names a frame, StoreCalibration is executed exactly when
\* store is true and every earlier step succeeded, and it is the last step;
\* in clearWorkspaceCalibration it follows the clear command and the write
\* of the sentinel frame name, so the stored frame name is the sentinel.
C19_StoreIsLast ==
    SetOrClearedActive
        => /\ (Execs("StoreCalibration") # {})
                 <=> (/\ last.args.store
                      /\ \E i \in Execs("CalibrateWorkspace") : last.log[i].ok)
           /\ \A i \in Execs("StoreCalibration") :
                 /\ i = Len(last.log)
                 /\ \A j \in 1..(i - 1) : last.log[j].ok
                 /\ last.op = "clearWorkspaceCalibration"
                       => /\ i = 3
                          /\ last.log[1].ev = "exec"
                          /\ last.log[1].name = "CalibrateWorkspace"
                          /\ last.log[2].ev = "set"
                          /\ last.log[2].name = "Link/Target"
                          /\ last.log[2].val = clearedFrameName
                          /\ last.log[i].at.linkTarget = clearedFrameName
                          /\ last.log[i].ok
                                => eeprom.linkTarget = clearedFrameName

\* C19 witness: a clear with store = true on a camera calibrated to "world"
\* stored the sentinel frame name.
C19_Witness ==
    /\ Succeeded("clearWorkspaceCalibration")
    /\ last.args.store
    /\ last.pre.linkTarget = "world"
    /\ Execs("StoreCalibration") = {3}
    /\ eeprom.linkTarget = clearedFrameName

\* A setWorkspaceCalibration with store = true whose command failed.
C19_NoStoreAfterFailure ==
    /\ last.op = "setWorkspaceCalibration"
    /\ last.args.store
    /\ last.status = "error"
    /\ Execs("StoreCalibration") = {}

\* The reads of image data in the last call.
Reads == {i \in 1..Len(last.log) : last.log[i].ev = "read"}

\* The one camera loadIntensity works on.
IntensityCamera ==
    IF monocular_camera # NoCamera THEN monocular_camera ELSE SerialNumber

\* C20: loadIntensity with capture = true captures on exactly one camera, the
\* monocular camera if there is one and the stereo camera otherwise.  With no
\* monocular camera it reads the left rectified image, and only after a
\* successful rectification command; with one it reads the monocular raw
\* image and never executes rectification.
C20_IntensitySource ==
    last.op = "loadIntensity"
        => /\ IF last.args.capture
              THEN /\ Execs("Capture") = {1}
                   /\ Range(last.log[1].cameras) = {IntensityCamera}
              ELSE Execs("Capture") = {}
           /\ last.status = "ok" => Reads # {}
           /\ \A i \in Reads :
                 /\ i = Len(last.log)
                 /\ Range(last.log[i].cameras) = {IntensityCamera}
                 /\ last.log[i].ok <=> last.status = "ok"
           /\ IF monocular_camera = NoCamera
              THEN \A i \in Reads :
                      /\ last.log[i].name = "Images/Rectified/Left"
                      /\ i - 1 \in Execs("RectifyImages")
                      /\ last.log[i - 1].ok
                      /\ Range(last.log[i - 1].cameras) = {SerialNumber}
              ELSE /\ Execs("RectifyImages") = {}
                   /\ \A i \in Reads : last.log[i].name = "Images/Raw"

\* C20 witness: with no monocular camera, a capturing loadIntensity went
\* through capture on the stereo camera, rectification and the read.
C20_Witness ==
    /\ Succeeded("loadIntensity")
    /\ last.args.capture
    /\ monocular_camera = NoCamera
    /\ Execs("Capture") = {1}
    /\ Execs("RectifyImages") = {2}
    /\ Reads = {3}

\* With a monocular camera, a capturing loadIntensity captured on it alone
\* and read its raw image.
C20_MonocularCase ==
    /\ Succeeded("loadIntensity")
    /\ last.args.capture
    /\ monocular_camera = MonoSerial
    /\ Range(last.log[1].cameras) = {MonoSerial}
    /\ Reads = {2}

\* The command `name` raised an error in the last call.
Raised(name) == \E i \in Execs(name) : ~last.log[i].ok

\* C21: when the capture or the pattern-detection command raises an error
\* inside recordCalibrationPattern, or pose estimation raises an error inside
\* detectCalibrationPattern, nothing runs after the failing command: a
\* flex-view level above 0 at entry is left at 0, and after a capture failure
\* the projector is off and the front light is on.
C21_FailureRestoresNothing ==
    (\/ /\ last.op \in {"recordCalibrationPattern", "detectCalibrationPattern"}
        /\ Raised("Capture") \/ Raised("CollectPattern")
     \/ /\ last.op = "detectCalibrationPattern"
        /\ Raised("EstimatePatternPose"))
        => /\ last.status = "error"
           /\ \A i \in 1..Len(last.log) : ~last.log[i].ok => i = Len(last.log)
           /\ dev = last.log[Len(last.log)].at
           /\ flexView(last.pre) > 0 => dev.flexView = FlexLevel(0)
           /\ flexView(last.pre) <= 0 => dev.flexView = last.pre.flexView
           /\ Raised("Capture") => ~dev.projector /\ dev.frontLight
           /\ Raised("CollectPattern") => dev.projector /\ ~dev.frontLight

\* C21 witness: a recording whose capture raised an error, on a camera with
\* a positive flex-view level, the projector on and the front light off, left
\* flex view at 0, the projector off and the front light on.
C21_Witness ==
    /\ last.op = "recordCalibrationPattern"
    /\ Raised("Capture")
    /\ flexView(last.pre) > 0
    /\ last.pre.projector
    /\ ~last.pre.frontLight
    /\ dev.flexView = FlexLevel(0)
    /\ ~dev.projector
    /\ dev.frontLight

\* A detection whose pose estimation raised an error after a sample was
\* recorded, on a camera with a positive flex-view level.
C21_EstimateCase ==
    /\ last.op = "detectCalibrationPattern"
    /\ Raised("EstimatePatternPose")
    /\ Execs("CollectPattern") # {}
    /\ flexView(last.pre) > 0
    /\ dev.flexView = FlexLevel(0)

\* A recording whose pattern-detection command raised an error.
C21_CollectCase ==
    /\ last.op = "recordCalibrationPattern"
    /\ Raised("CollectPattern")
    /\ flexView(last.pre) > 0
    /\ dev.flexView = FlexLevel(0)

====
